---- MODULE Spec2Model ----
(***************************************************************************)
(* Model of src/lib.rs: the winit event handler of `run` (the lifecycle    *)
(* controller), `State::new` (GPU context initializer + pipeline builder)  *)
(* and the drop of `State`.  One action per arm of the `match event`.      *)
(***************************************************************************)
EXTENDS Integers, Sequences, FiniteSets, TLC

\* ------------------------------------------------------------------ bounds
\* Windows (hence Sessions) that may be created in one run.
MaxWindows == 3
\* Largest width / height a window or a Resized event reports.
MaxDim == 2
\* Longest adapter list `enumerate_adapters` reports.
MaxAdapters == 2

\* ------------------------------------------------------------ Option<T>
None == <<>>
Some(x) == <<x>>
IsNone(o) == o = <<>>
IsSome(o) == o # <<>>
Unwrap(o) == o[1]

\* ---------------------------------------------------------- ControlFlow
Poll == [kind |-> "Poll"]
Wait == [kind |-> "Wait"]
ExitWithCode(code) == [kind |-> "ExitWithCode", code |-> code]

\* ------------------------------------------------------- environment sets
WindowIds == 1..MaxWindows
Dims == 0..MaxDim
\* A created window reports a positive physical size.
WindowDims == 1..MaxDim
Formats == {"Bgra8UnormSrgb", "Rgba8UnormSrgb"}
\* What `surface.get_supported_formats(&adapter)` may return, in reported order.
FormatLists ==
    {<<>>} \cup {<<f>> : f \in Formats}
           \cup {p \in Formats \X Formats : p[1] # p[2]}
\* An adapter is known by the formats the surface supports with it.
Adapters == [formats : FormatLists]
AdapterLists == UNION {[1..n -> Adapters] : n \in 0..MaxAdapters}
\* wgpu::SurfaceError
SurfaceErrors == {"Timeout", "Outdated", "Lost", "OutOfMemory"}
AcquireResults == {"Ok"} \cup SurfaceErrors
\* Outcome of building the window icon: absent on android, else loaded or failed.
IconOutcomes == {"absent", "loaded", "failed"}

\* ------------------------------------------------------ recorded calls
Configure(config) == [op |-> "configure", config |-> config]
GetCurrentTexture(result) == [op |-> "get_current_texture", result |-> result]
CreateRenderPipeline(format) == [op |-> "create_render_pipeline", format |-> format]
RenderPass(pipeline) ==
    [op |-> "render_pass", pipeline |-> pipeline, vertices |-> 3, instances |-> 1]
Submit == [op |-> "submit"]
Present == [op |-> "present"]
RequestRedraw(window) == [op |-> "request_redraw", window |-> window]

\* ---------------------------------------------------------------- state
VARIABLES
    phase,          \* "init" | "running" | "destroyed" | "panicked"
    state,          \* Option<State>: the `state` local captured by the handler
    control_flow,   \* *control_flow as the handler left it at the end of the last event
    exit_code,      \* Option<i32>: the code the loop will exit with (sticky once requested)
    next_window,    \* id the next created window gets
    last,           \* the event the handler processed last (for a redraw, with what
                    \* get_current_texture answers when the handler calls it)
    calls,          \* window / surface / queue calls made while handling `last`, in order
    released,       \* State fields dropped while handling `last`, in order
    oom_taken,      \* an OutOfMemory acquisition failure was handled in this run
    script,         \* the events (with the platform's answers) a scripted run delivers;
                    \* empty when the events are free
    pos             \* how many events of `script` were delivered

vars == <<phase, state, control_flow, exit_code, next_window, last, calls, released,
          oom_taken, script, pos>>

\* ------------------------------------------------------------ State::new
\* Mutant: the fallback takes the first enumerated adapter without the format filter.
SelectAdapterUnfiltered(requested, enumerated) ==
    IF IsSome(requested) THEN requested
    ELSE IF enumerated = <<>> THEN None ELSE Some(Head(enumerated))

\* request_adapter(..).or_else(|| enumerate_adapters(..).filter(..).next())
SelectAdapter(requested, enumerated) ==
    IF IsSome(requested) THEN requested
    ELSE LET usable == SelectSeq(enumerated, LAMBDA a : a.formats # <<>>)
         IN  IF usable = <<>> THEN None ELSE Some(Head(usable))

\* Mutant: the configuration is built with a fixed size, not the window's.
SurfaceConfigurationFixedSize(format, width, height) ==
    [usage |-> "RENDER_ATTACHMENT", format |-> format, width |-> 1, height |-> 1,
     present_mode |-> "AutoVsync", alpha_mode |-> "Auto"]

SurfaceConfiguration(format, width, height) ==
    [usage |-> "RENDER_ATTACHMENT", format |-> format,
     width |-> width, height |-> height,
     present_mode |-> "AutoVsync", alpha_mode |-> "Auto"]

Panic(msg) == [ok |-> FALSE, panic |-> msg]

\* State::new for the window with identity `id`; `env` is what the platform answers.
StateNew(id, env) ==
    IF env.icon = "failed" THEN Panic("Couldn't load icon")
    ELSE IF ~env.window_ok THEN Panic("Unable to create window")
    ELSE LET adapter == SelectAdapter(env.requested, env.enumerated) IN
    IF IsNone(adapter) THEN Panic("Unable to request video adapter.")
    ELSE IF ~env.device_ok THEN Panic("Unable to request WGPU device and render queue")
    ELSE IF Unwrap(adapter).formats = <<>> THEN Panic("index out of bounds")
    ELSE LET config == SurfaceConfiguration(Unwrap(adapter).formats[1],
                                            env.width, env.height) IN
    IF ~env.configure_ok THEN Panic("Surface::configure")
    ELSE [ok |-> TRUE,
          st |-> [window |-> id, surface |-> id, config |-> config,
                  device |-> id, queue |-> id,
                  pipeline |-> [device |-> id, format |-> config.format]],
          calls |-> <<Configure(config), CreateRenderPipeline(config.format)>>]

\* Dropping a State drops its fields in declaration order.
DropState(st) == <<"window", "surface", "config", "device", "queue", "pipeline">>

DropOption(o) == IF IsSome(o) THEN DropState(Unwrap(o)) ELSE <<>>

\* -------------------------------------------------- the loop around a handler call
\* The loop keeps the first exit request: once ExitWithCode is set it cannot be changed.
StickyExit(old, flow) ==
    IF IsSome(old) THEN old
    ELSE IF flow.kind = "ExitWithCode" THEN Some(flow.code) ELSE None

\* What one handler call leaves behind.
Deliver(event, st, flow, made, dropped) ==
    /\ last' = event
    /\ state' = st
    /\ control_flow' = flow
    /\ exit_code' = StickyExit(exit_code, flow)
    /\ calls' = made
    /\ released' = dropped
    /\ oom_taken' = (oom_taken \/ GetCurrentTexture("OutOfMemory") \in {made[i] : i \in DOMAIN made})

Init ==
    /\ phase = "init"
    /\ state = None
    /\ control_flow = Poll
    /\ exit_code = None
    /\ next_window = 1
    /\ last = [kind |-> "None"]
    /\ calls = <<>>
    /\ released = <<>>
    /\ oom_taken = FALSE
    /\ script = <<>>
    /\ pos = 0

\* Event::NewEvents(StartCause::Init)
NewEventsInit ==
    /\ phase = "init"
    /\ phase' = "running"
    /\ Deliver([kind |-> "NewEvents"], state, Wait, <<>>, <<>>)
    /\ UNCHANGED <<next_window, script, pos>>

\* ----------------------------------------------------------- handler arms
\* What an arm leaves: the `state` slot, *control_flow, the calls made, the fields dropped.
Effect(st, flow, made, dropped) ==
    [st |-> st, flow |-> flow, calls |-> made, released |-> dropped]

\* Mutant: the window identity is not compared.
TargetsAnyWindow(o, window_id) == IsSome(o)

\* `let Some(st) = state else { return }; if window_id != st.window.id() { return }`
Targets(o, window_id) == IsSome(o) /\ window_id = Unwrap(o).window

\* Mutant: every Resumed requests a redraw, also when the Session exists.
OnResumedAlwaysRedraws(o, new) ==
    IF IsNone(o)
    THEN [st |-> Some(new.st), flow |-> Wait,
          calls |-> new.calls \o <<RequestRedraw(new.st.window)>>, released |-> <<>>]
    ELSE [st |-> o, flow |-> Wait,
          calls |-> <<RequestRedraw(Unwrap(o).window)>>, released |-> <<>>]

\* Event::Resumed, with `new` the result of State::new (evaluated only when state is None).
OnResumed(o, new) ==
    IF IsNone(o)
    THEN Effect(Some(new.st), Wait, new.calls \o <<RequestRedraw(new.st.window)>>, <<>>)
    ELSE Effect(o, Wait, <<>>, <<>>)

\* Mutant: the arm only logs and forgets `state = None`.
OnSuspendedKeepsState(o) == [st |-> o, flow |-> Wait, calls |-> <<>>, released |-> <<>>]

\* Event::Suspended
OnSuspended(o) == Effect(None, Wait, <<>>, DropOption(o))

\* Mutant: the zero-dimension guard is missing.
ResizedUnguarded(st, width, height) ==
    LET config == [st.config EXCEPT !.width = width, !.height = height]
    IN  [st |-> Some([st EXCEPT !.config = config]), flow |-> Wait,
         calls |-> <<Configure(config)>>, released |-> <<>>]

\* Mutant: the guard asks for both dimensions to be zero (&& for ||).
ResizedBothZero(st, width, height) ==
    IF width = 0 /\ height = 0
    THEN [st |-> Some(st), flow |-> Wait, calls |-> <<>>, released |-> <<>>]
    ELSE ResizedUnguarded(st, width, height)

\* Mutant: width and height are stored swapped.
ResizedSwapped(st, width, height) ==
    IF width = 0 \/ height = 0
    THEN [st |-> Some(st), flow |-> Wait, calls |-> <<>>, released |-> <<>>]
    ELSE ResizedUnguarded(st, height, width)

\* Mutant: a stored resize also rebuilds the pipeline.
ResizedRebuildsPipeline(st, width, height) ==
    IF width = 0 \/ height = 0
    THEN [st |-> Some(st), flow |-> Wait, calls |-> <<>>, released |-> <<>>]
    ELSE LET config == [st.config EXCEPT !.width = width, !.height = height]
         IN  [st |-> Some([st EXCEPT !.config = config]), flow |-> Wait,
              calls |-> <<Configure(config), CreateRenderPipeline(config.format)>>,
              released |-> <<>>]

\* WindowEvent::Resized(PhysicalSize { width, height })
Resized(st, width, height) ==
    IF width = 0 \/ height = 0 THEN Effect(Some(st), Wait, <<>>, <<>>)
    ELSE LET config == [st.config EXCEPT !.width = width, !.height = height]
         IN  Effect(Some([st EXCEPT !.config = config]), Wait, <<Configure(config)>>, <<>>)

\* Mutant: CloseRequested is matched before the session and window checks.
OnWindowEventCloseFirst(o, window_id, event) ==
    IF event.kind = "CloseRequested"
    THEN [st |-> o, flow |-> ExitWithCode(0), calls |-> <<>>, released |-> <<>>]
    ELSE IF ~Targets(o, window_id)
    THEN [st |-> o, flow |-> Wait, calls |-> <<>>, released |-> <<>>]
    ELSE IF event.kind = "Resized" THEN Resized(Unwrap(o), event.width, event.height)
    ELSE [st |-> o, flow |-> Wait, calls |-> <<>>, released |-> <<>>]

\* Mutant: CloseRequested asks for exit code 1.
OnWindowEventCloseExitsOne(o, window_id, event) ==
    IF ~Targets(o, window_id)
    THEN [st |-> o, flow |-> Wait, calls |-> <<>>, released |-> <<>>]
    ELSE IF event.kind = "Resized" THEN Resized(Unwrap(o), event.width, event.height)
    ELSE IF event.kind = "CloseRequested"
    THEN [st |-> o, flow |-> ExitWithCode(1), calls |-> <<>>, released |-> <<>>]
    ELSE [st |-> o, flow |-> Wait, calls |-> <<>>, released |-> <<>>]

\* Event::WindowEvent { window_id, event }
OnWindowEvent(o, window_id, event) ==
    IF ~Targets(o, window_id) THEN Effect(o, Wait, <<>>, <<>>)
    ELSE CASE event.kind = "Resized" -> Resized(Unwrap(o), event.width, event.height)
           [] event.kind = "CloseRequested" -> Effect(o, ExitWithCode(0), <<>>, <<>>)
           [] OTHER -> Effect(o, Wait, <<>>, <<>>)

\* Mutant: after the Lost reconfiguration the frame is acquired again and rendered.
OnSurfaceErrorRetries(st, err) ==
    IF err = "Lost"
    THEN [st |-> Some(st), flow |-> Wait,
          calls |-> <<Configure(st.config), GetCurrentTexture("Ok"),
                      RenderPass(st.pipeline), Submit, Present>>,
          released |-> <<>>]
    ELSE IF err = "OutOfMemory"
    THEN [st |-> Some(st), flow |-> ExitWithCode(1), calls |-> <<>>, released |-> <<>>]
    ELSE [st |-> Some(st), flow |-> Wait, calls |-> <<>>, released |-> <<>>]

\* Mutant: Outdated is handled like Lost.
OnSurfaceErrorOutdatedReconfigures(st, err) ==
    IF err \in {"Lost", "Outdated"}
    THEN [st |-> Some(st), flow |-> Wait, calls |-> <<Configure(st.config)>>,
          released |-> <<>>]
    ELSE IF err = "OutOfMemory"
    THEN [st |-> Some(st), flow |-> ExitWithCode(1), calls |-> <<>>, released |-> <<>>]
    ELSE [st |-> Some(st), flow |-> Wait, calls |-> <<>>, released |-> <<>>]

\* Mutant: OutOfMemory asks for exit code 0.
OnSurfaceErrorOomExitsZero(st, err) ==
    IF err = "Lost"
    THEN [st |-> Some(st), flow |-> Wait, calls |-> <<Configure(st.config)>>,
          released |-> <<>>]
    ELSE IF err = "OutOfMemory"
    THEN [st |-> Some(st), flow |-> ExitWithCode(0), calls |-> <<>>, released |-> <<>>]
    ELSE [st |-> Some(st), flow |-> Wait, calls |-> <<>>, released |-> <<>>]

\* The `Err(err)` arm of `match st.surface.get_current_texture()`
OnSurfaceError(st, err) ==
    CASE err = "Lost" -> Effect(Some(st), Wait, <<Configure(st.config)>>, <<>>)
      [] err = "OutOfMemory" -> Effect(Some(st), ExitWithCode(1), <<>>, <<>>)
      [] OTHER -> Effect(Some(st), Wait, <<>>, <<>>)

\* Mutant: the image is presented before the command buffer is submitted.
RenderFramePresentsFirst(st) == <<RenderPass(st.pipeline), Present, Submit>>

\* The frame after a successful acquisition: record one pass, submit, present.
RenderFrame(st) == <<RenderPass(st.pipeline), Submit, Present>>

\* Event::RedrawRequested(window_id); `result` is what get_current_texture answers.
OnRedrawRequested(o, window_id, result) ==
    IF ~Targets(o, window_id) THEN Effect(o, Wait, <<>>, <<>>)
    ELSE LET st == Unwrap(o) IN
         IF result = "Ok"
         THEN Effect(o, Wait, <<GetCurrentTexture("Ok")>> \o RenderFrame(st), <<>>)
         ELSE LET e == OnSurfaceError(st, result)
              IN  Effect(e.st, e.flow, <<GetCurrentTexture(result)>> \o e.calls, <<>>)

\* Event::LoopDestroyed
OnLoopDestroyed(o) == Effect(None, Wait, <<>>, DropOption(o))

\* ------------------------------------------------------------- actions
Apply(event, e) == Deliver(event, e.st, e.flow, e.calls, e.released)

\* What the platform answers State::new.  An answer that is never asked for (the
\* steps before it failed; the adapters are enumerated only when the request returned
\* none) or that cannot show (the window size, when a later step panics) is fixed.
NewEnv(icon, window_ok, size, requested, enumerated, device_ok, configure_ok) ==
    [icon |-> icon, window_ok |-> window_ok, width |-> size[1], height |-> size[2],
     requested |-> requested, enumerated |-> enumerated,
     device_ok |-> device_ok, configure_ok |-> configure_ok]

AdapterAnswers ==
    {<<Some(a), <<>>>> : a \in Adapters} \cup {<<None, l>> : l \in AdapterLists}

NewEnvs ==
    {NewEnv("failed", FALSE, <<1, 1>>, None, <<>>, FALSE, FALSE)}
    \cup {NewEnv(icon, FALSE, <<1, 1>>, None, <<>>, FALSE, FALSE) :
              icon \in IconOutcomes \ {"failed"}}
    \cup {NewEnv(icon, TRUE, <<1, 1>>, ans[1], ans[2], ok, FALSE) :
              icon \in IconOutcomes \ {"failed"}, ans \in AdapterAnswers, ok \in BOOLEAN}
    \cup {NewEnv(icon, TRUE, size, ans[1], ans[2], TRUE, TRUE) :
              icon \in IconOutcomes \ {"failed"}, ans \in AdapterAnswers,
              size \in WindowDims \X WindowDims}

\* Whether the platform offers a compatible adapter: the default request returns one,
\* or an enumerated adapter supports some format of the surface.
CompatibleAdapter(env) ==
    IsSome(env.requested) \/ \E i \in DOMAIN env.enumerated : env.enumerated[i].formats # <<>>

\* The Resumed event, with what the platform answered the State::new it ran.
ResumedWith(env) ==
    [kind |-> "Resumed", icon |-> env.icon, window_ok |-> env.window_ok,
     width |-> env.width, height |-> env.height, compatible |-> CompatibleAdapter(env),
     device_ok |-> env.device_ok, configure_ok |-> env.configure_ok]

\* Mutant: a failed State::new is swallowed and the loop goes on without a Session.
ResumedNewSwallowsFailure(env) ==
    LET new == StateNew(next_window, env) IN
    IF new.ok
    THEN /\ Apply(ResumedWith(env), OnResumed(state, new))
         /\ next_window' = next_window + 1
         /\ UNCHANGED phase
    ELSE /\ Apply(ResumedWith(env), Effect(None, Wait, <<>>, <<>>))
         /\ UNCHANGED <<phase, next_window>>

\* Event::Resumed with no Session: State::new runs against the answers `env`.
ResumedNew(env) ==
    LET new == StateNew(next_window, env) IN
    IF new.ok
    THEN /\ Apply(ResumedWith(env), OnResumed(state, new))
         /\ next_window' = next_window + 1
         /\ UNCHANGED phase
    ELSE /\ phase' = "panicked"
         /\ last' = [kind |-> "Resumed", panic |-> new.panic] @@ ResumedWith(env)
         /\ UNCHANGED <<state, control_flow, exit_code, next_window,
                        calls, released, oom_taken>>

Resumed ==
    /\ phase = "running"
    /\ IF IsSome(state)
       THEN /\ Apply([kind |-> "Resumed"], OnResumed(state, None))
            /\ UNCHANGED <<phase, next_window>>
       ELSE /\ next_window <= MaxWindows
            /\ \E env \in NewEnvs : ResumedNew(env)
    /\ UNCHANGED <<script, pos>>

Suspended ==
    /\ phase = "running"
    /\ Apply([kind |-> "Suspended"], OnSuspended(state))
    /\ UNCHANGED <<phase, next_window, script, pos>>

WindowEvents ==
    {[kind |-> "Resized", width |-> w, height |-> h] : w \in Dims, h \in Dims}
        \cup {[kind |-> "CloseRequested"], [kind |-> "Focused"]}

WindowEvent ==
    /\ phase = "running"
    /\ \E window_id \in WindowIds, event \in WindowEvents :
         Apply([kind |-> "WindowEvent", window_id |-> window_id, event |-> event],
               OnWindowEvent(state, window_id, event))
    /\ UNCHANGED <<phase, next_window, script, pos>>

RedrawRequested ==
    /\ phase = "running"
    /\ \E window_id \in WindowIds, result \in AcquireResults :
         Apply([kind |-> "RedrawRequested", window_id |-> window_id, result |-> result],
               OnRedrawRequested(state, window_id, result))
    /\ UNCHANGED <<phase, next_window, script, pos>>

\* `_ => {}`: MainEventsCleared, RedrawEventsCleared, later NewEvents, ...
OtherEvent ==
    /\ phase = "running"
    /\ Apply([kind |-> "Other"], Effect(state, Wait, <<>>, <<>>))
    /\ UNCHANGED <<phase, next_window, script, pos>>

\* The loop sends LoopDestroyed, its last event, once an exit was requested.
LoopDestroyed ==
    /\ phase = "running"
    /\ IsSome(exit_code)
    /\ phase' = "destroyed"
    /\ Apply([kind |-> "LoopDestroyed"], OnLoopDestroyed(state))
    /\ UNCHANGED <<next_window, script, pos>>

Next ==
    \/ NewEventsInit
    \/ Resumed
    \/ Suspended
    \/ WindowEvent
    \/ RedrawRequested
    \/ OtherEvent
    \/ LoopDestroyed

Spec == Init /\ [][Next]_vars

\* ------------------------------------------------------------ scripted runs
\* The same handler, fed a fixed sequence of events chosen at the start together
\* with the platform's answers.
ScriptResumed(env) == [kind |-> "Resumed", env |-> env]
ScriptWindowEvent(window_id, event) ==
    [kind |-> "WindowEvent", window_id |-> window_id, event |-> event]
ScriptResized(window_id, width, height) ==
    ScriptWindowEvent(window_id, [kind |-> "Resized", width |-> width, height |-> height])
ScriptRedraw(window_id, result) ==
    [kind |-> "RedrawRequested", window_id |-> window_id, result |-> result]

\* Answers with which every step of State::new succeeds on the requested adapter.
GoodEnvs ==
    {NewEnv("absent", TRUE, size, Some(a), <<>>, TRUE, TRUE) :
        size \in WindowDims \X WindowDims, a \in {x \in Adapters : x.formats # <<>>}}

\* A single Resumed, against every answer of the platform.
NewScripts == {<<ScriptResumed(env)>> : env \in NewEnvs}

\* Resume, Resize, Suspend, Resume.
FreshScripts ==
    {<<ScriptResumed(e1), ScriptResized(1, w, h), [kind |-> "Suspended"], ScriptResumed(e2)>> :
        e1 \in GoodEnvs, e2 \in GoodEnvs, w \in Dims, h \in Dims}

\* Resume (window 800x600), RedrawRequest (acquired), Resize(0,600), Resize(400,300),
\* CloseRequested.
EndToEndScripts ==
    {<<ScriptResumed([env EXCEPT !.width = 800, !.height = 600]),
       ScriptRedraw(1, "Ok"),
       ScriptResized(1, 0, 600),
       ScriptResized(1, 400, 300),
       ScriptWindowEvent(1, [kind |-> "CloseRequested"])>> :
        env \in {e \in NewEnvs : e.configure_ok /\ e.width = 1 /\ e.height = 1}}

Scripts == NewScripts \cup FreshScripts \cup EndToEndScripts

InitScript ==
    /\ phase = "init"
    /\ state = None
    /\ control_flow = Poll
    /\ exit_code = None
    /\ next_window = 1
    /\ last = [kind |-> "None"]
    /\ calls = <<>>
    /\ released = <<>>
    /\ oom_taken = FALSE
    /\ script \in Scripts
    /\ pos = 0

\* The handler processes the next event of the script.
Scripted ==
    /\ phase = "running"
    /\ pos < Len(script)
    /\ pos' = pos + 1
    /\ UNCHANGED script
    /\ LET ev == script[pos + 1] IN
       CASE ev.kind = "Resumed" ->
              IF IsSome(state)
              THEN /\ Apply([kind |-> "Resumed"], OnResumed(state, None))
                   /\ UNCHANGED <<phase, next_window>>
              ELSE ResumedNew(ev.env)
         [] ev.kind = "Suspended" ->
              /\ Apply(ev, OnSuspended(state))
              /\ UNCHANGED <<phase, next_window>>
         [] ev.kind = "WindowEvent" ->
              /\ Apply(ev, OnWindowEvent(state, ev.window_id, ev.event))
              /\ UNCHANGED <<phase, next_window>>
         [] ev.kind = "RedrawRequested" ->
              /\ Apply(ev, OnRedrawRequested(state, ev.window_id, ev.result))
              /\ UNCHANGED <<phase, next_window>>

NextScript ==
    \/ NewEventsInit
    \/ Scripted

SpecScript == InitScript /\ [][NextScript]_vars

\* ===================================================================== claims
\* Vocabulary of the properties below.
Ops(made) == [i \in DOMAIN made |-> made[i].op]
CountOp(made, op) == Cardinality({i \in DOMAIN made : made[i].op = op})
GpuOps == {"configure", "get_current_texture", "render_pass", "submit", "present",
           "create_render_pipeline"}
NoGpuCalls(made) == \A i \in DOMAIN made : made[i].op \notin GpuOps
FrameOps == {"get_current_texture", "render_pass", "submit", "present"}
NoFrameCalls(made) == \A i \in DOMAIN made : made[i].op \notin FrameOps
IsResize(ev) == ev.kind = "WindowEvent" /\ ev.event.kind = "Resized"
IsClose(ev) == ev.kind = "WindowEvent" /\ ev.event.kind = "CloseRequested"
IsRedraw(ev, result) == ev.kind = "RedrawRequested" /\ ev.result = result
Config(o) == Unwrap(o).config

\* C1: the controller holds at most one Session at any time; a Resume processed
\* with no Session leaves exactly one Session, a Resume processed with a Session
\* leaves exactly that Session, and a Suspend leaves no Session.
C1_AtMostOneSession ==
    /\ [](Len(state) <= 1)
    /\ [][/\ (last'.kind = "Resumed" /\ phase' = "running" /\ IsNone(state))
               => Len(state') = 1
          /\ (last'.kind = "Resumed" /\ IsSome(state)) => state' = state
          /\ last'.kind = "Suspended" => IsNone(state')]_vars

\* A second Session exists: Resume, Suspend, Resume have been processed.
C1_Witness ==
    /\ last.kind = "Resumed"
    /\ phase = "running"
    /\ Len(state) = 1
    /\ Unwrap(state).window = 2

\* C2: an OutOfMemory acquisition failure in a RedrawRequest results in process
\* exit code 1, and once it has happened no later event performs an acquire,
\* a submit or a present.
C2_OomExitsOneAndStopsFrames ==
    /\ []((IsRedraw(last, "OutOfMemory") /\ Targets(state, last.window_id))
            => exit_code = Some(1))
    /\ [][oom_taken => NoFrameCalls(calls')]_vars

\* C3: a CloseRequested event handled for the Session's window results in process
\* exit code 0, and no OutOfMemory path was taken before it in the run.
C3_CloseExitsZeroNeverAfterOom ==
    (IsClose(last) /\ Targets(state, last.window_id))
        => (exit_code = Some(0) /\ ~oom_taken)

C5_ZeroResizeIgnored ==
    [][(IsResize(last') /\ (last'.event.width = 0 \/ last'.event.height = 0))
        => (state' = state /\ CountOp(calls', "configure") = 0)]_vars

\* Resized(0, h) with h > 0 was handled for the window of a live Session.
C5_Witness ==
    /\ IsResize(last)
    /\ last.event.width = 0
    /\ last.event.height = MaxDim
    /\ Targets(state, last.window_id)
    /\ Config(state).height # MaxDim
    /\ calls = <<>>

\* C6: with a Session whose window the event targets, Resized(w, h) with w > 0 and
\* h > 0 sets the stored width and height to (w, h), changes no other field, and
\* makes exactly one reconfiguration call, carrying the stored configuration.
C6_ResizeStoresAndReconfigures ==
    [][(/\ IsResize(last')
        /\ last'.event.width > 0
        /\ last'.event.height > 0
        /\ Targets(state, last'.window_id))
        => (/\ IsSome(state')
            /\ Config(state').width = last'.event.width
            /\ Config(state').height = last'.event.height
            /\ \A f \in {"usage", "format", "present_mode", "alpha_mode"} :
                   Config(state')[f] = Config(state)[f]
            /\ \A f \in {"window", "surface", "device", "queue", "pipeline"} :
                   Unwrap(state')[f] = Unwrap(state)[f]
            /\ CountOp(calls', "configure") = 1
            /\ calls' = <<[op |-> "configure", config |-> Config(state')]>>)]_vars

\* Resized(1, MaxDim) was handled and stored.
C6_Witness ==
    /\ IsResize(last)
    /\ last.event.width = 1
    /\ last.event.height = MaxDim
    /\ Targets(state, last.window_id)
    /\ Config(state).width = 1
    /\ Config(state).height = MaxDim
    /\ Len(calls) = 1

\* C7: when the acquisition of a RedrawRequest fails with Lost, the handler makes
\* one acquisition (no retry), exactly one reconfiguration call with the stored
\* configuration, which it leaves unchanged, no draw, submit or present, keeps the
\* Session and does not signal termination.
C7_LostReconfiguresOnce ==
    [][(IsRedraw(last', "Lost") /\ Targets(state, last'.window_id))
        => (/\ state' = state
            /\ CountOp(calls', "get_current_texture") = 1
            /\ CountOp(calls', "configure") = 1
            /\ \E i \in DOMAIN calls' :
                   calls'[i] = [op |-> "configure", config |-> Config(state)]
            /\ CountOp(calls', "render_pass") = 0
            /\ CountOp(calls', "submit") = 0
            /\ CountOp(calls', "present") = 0
            /\ control_flow' = Wait
            /\ exit_code' = exit_code)]_vars

\* A Lost acquisition was handled: one acquisition, then one reconfiguration.
C7_Witness ==
    /\ IsRedraw(last, "Lost")
    /\ Targets(state, last.window_id)
    /\ Len(calls) = 2
    /\ calls[2].op = "configure"

\* C8: with no Session, a Resized, CloseRequested or other window event and a
\* RedrawRequest make no GPU call and leave the controller Uninitialized (no
\* Session, no termination requested by the event).
C8_NoSessionNoGpuCalls ==
    [][(IsNone(state) /\ last'.kind \in {"WindowEvent", "RedrawRequested"})
        => (NoGpuCalls(calls') /\ IsNone(state') /\ control_flow' = Wait)]_vars

\* CloseRequested arrived after the Session was dropped.
C8_Witness ==
    /\ IsClose(last)
    /\ IsNone(state)
    /\ next_window > 1
    /\ phase = "running"

\* C9: a RedrawRequest whose acquisition succeeds performs acquire, record, submit
\* and present exactly once each, in this order, within the one event; after every
\* event no acquired image is left unpresented.
C9_FrameOrder ==
    /\ (IsRedraw(last, "Ok") /\ Targets(state, last.window_id))
         => Ops(calls) = <<"get_current_texture", "render_pass", "submit", "present">>
    /\ \A i \in DOMAIN calls :
         (calls[i].op = "get_current_texture" /\ calls[i].result = "Ok")
            => /\ i = 1
               /\ calls[Len(calls)].op = "present"
               /\ CountOp(calls, "get_current_texture") = 1
               /\ CountOp(calls, "present") = 1

\* A frame was rendered.
C9_Witness ==
    /\ IsRedraw(last, "Ok")
    /\ Targets(state, last.window_id)
    /\ Len(calls) = 4

\* C10: dropping a Session releases the pipeline first, then device and queue,
\* then the surface, and the window last.
C10_ReleaseOrder ==
    released # <<>> =>
        \E p, d, q, s, w \in DOMAIN released :
            /\ released[p] = "pipeline"
            /\ released[d] = "device"
            /\ released[q] = "queue"
            /\ released[s] = "surface"
            /\ released[w] = "window"
            /\ p < d /\ p < q /\ d < s /\ q < s /\ s < w

\* C11: the window icon never aborts the lifecycle: whether it is absent, fails to
\* load or loads, no Resume ends in a fatal abort on account of the icon.
C11_IconNeverAborts ==
    phase = "panicked" => (last.icon # "failed" /\ last.panic # "Couldn't load icon")

\* A Session with every part built: the window, the surface made from it, the
\* configuration, the device and queue, the pipeline built on that device for the
\* configured format.
CompleteSession(st) ==
    /\ DOMAIN st = {"window", "surface", "config", "device", "queue", "pipeline"}
    /\ st.surface = st.window
    /\ st.device = st.window
    /\ st.queue = st.device
    /\ st.pipeline.device = st.device
    /\ st.pipeline.format = st.config.format
    /\ st.config.format \in Formats
RanStateNew(ev) == ev.kind = "Resumed" /\ "window_ok" \in DOMAIN ev
AllBuilt(ev) == ev.window_ok /\ ev.compatible /\ ev.device_ok /\ ev.configure_ok

\* C12 as stated: a construction failure aborts the process before the event
\* loop has processed any event, and the controller never holds a partial Session.
C12_AbortBeforeLoop ==
    /\ phase = "panicked" => last.kind = "None"
    /\ IsSome(state) => CompleteSession(Unwrap(state))

\* C12 as amended: a failure of window, adapter, device or surface configuration
\* construction is fatal, and aborts the process while the handler processes the
\* Resumed event that ran State::new (the loop has processed events by then); no
\* event is processed after the abort, and the controller never holds a partial
\* Session.
C12_AbortInResumed ==
    /\ [](/\ phase = "panicked" => (RanStateNew(last) /\ IsNone(state))
          /\ (RanStateNew(last) /\ ~AllBuilt(last)) => phase = "panicked"
          /\ (RanStateNew(last) /\ phase # "panicked") => IsSome(state)
          /\ IsSome(state) => CompleteSession(Unwrap(state)))
    /\ [][phase # "panicked"]_vars

\* The device request failed at the Resume that would have built the second Session.
C12_Witness ==
    /\ phase = "panicked"
    /\ last.panic = "Unable to request WGPU device and render queue"
    /\ last.window_ok
    /\ ~last.device_ok
    /\ next_window = 2
    /\ IsNone(state)

\* C13: every Session is created fresh.  After Resume, Resize(w, h), Suspend,
\* Resume the new Session's configuration has the size the new window reports at
\* that Resume and the format of that Resume's adapter, whatever the earlier
\* Session was resized to; its window, surface, device, queue and pipeline are new;
\* and the Suspend dropped every part of the old Session.
IsFreshScript == Len(script) = 4 /\ script[3].kind = "Suspended"
C13_SessionCreatedFresh ==
    IsFreshScript =>
        /\ pos = 3 =>
             /\ IsNone(state)
             /\ {released[i] : i \in DOMAIN released}
                    = {"window", "surface", "config", "device", "queue", "pipeline"}
        /\ pos = 4 =>
             /\ IsSome(state)
             /\ Config(state) =
                    [usage |-> "RENDER_ATTACHMENT",
                     format |-> Unwrap(script[4].env.requested).formats[1],
                     width |-> script[4].env.width, height |-> script[4].env.height,
                     present_mode |-> "AutoVsync", alpha_mode |-> "Auto"]
             /\ \A f \in {"window", "surface", "device", "queue"} : Unwrap(state)[f] = 2
             /\ Unwrap(state).pipeline.device = 2

\* The first Session was resized to MaxDim x MaxDim and the second one, created at
\* a 1 x MaxDim window, holds 1 x MaxDim.
C13_Witness ==
    /\ IsFreshScript
    /\ pos = 4
    /\ script[2].event.width = MaxDim
    /\ script[2].event.height = MaxDim
    /\ script[1].env.width = MaxDim
    /\ script[4].env.width = 1
    /\ script[4].env.height = MaxDim
    /\ Config(state).width = 1
    /\ Config(state).height = MaxDim
    /\ Unwrap(state).window = 2

\* C15: the run Resume (window 800x600), RedrawRequest (acquisition succeeds),
\* Resize(0,600), Resize(400,300), CloseRequested yields in order a Session with
\* configuration (800,600); exactly one acquire-record-submit-present cycle;
\* configuration still (800,600); configuration (400,300) with exactly one
\* reconfigure call; exit code 0.
IsEndToEndScript == Len(script) = 5
Size(o) == <<Config(o).width, Config(o).height>>
C15_EndToEnd ==
    (IsEndToEndScript /\ phase = "running") =>
        /\ pos = 1 => (IsSome(state) /\ Size(state) = <<800, 600>>)
        /\ pos = 2 => /\ Ops(calls) = <<"get_current_texture", "render_pass",
                                        "submit", "present">>
                      /\ Size(state) = <<800, 600>>
        /\ pos = 3 => (Size(state) = <<800, 600>> /\ calls = <<>>)
        /\ pos = 4 => /\ Size(state) = <<400, 300>>
                      /\ CountOp(calls, "configure") = 1
                      /\ calls = <<[op |-> "configure", config |-> Config(state)]>>
        /\ pos = 5 => /\ exit_code = Some(0)
                      /\ control_flow = ExitWithCode(0)
                      /\ Size(state) = <<400, 300>>
        /\ pos < 5 => exit_code = None

\* The whole run was processed.
C15_Witness ==
    /\ IsEndToEndScript
    /\ pos = 5
    /\ phase = "running"
    /\ exit_code = Some(0)
    /\ Size(state) = <<400, 300>>

\* C19: when the default request returns an adapter it is the one used; otherwise
\* the first enumerated adapter, in reported order, with a non-empty format list;
\* when neither exists State::new is fatal; and the configured format is the first
\* entry of the used adapter's format list.
IsNewScript == Len(script) = 1
FirstUsable(enumerated, i) ==
    /\ enumerated[i].formats # <<>>
    /\ \A j \in 1..(i - 1) : enumerated[j].formats = <<>>
C19_AdapterAndFormat ==
    (IsNewScript /\ pos = 1 /\ script[1].env.window_ok /\ script[1].env.device_ok
                 /\ script[1].env.configure_ok) =>
        LET env == script[1].env IN
        /\ (IsSome(env.requested) /\ Unwrap(env.requested).formats # <<>>) =>
              /\ phase = "running"
              /\ IsSome(state)
              /\ Config(state).format = Unwrap(env.requested).formats[1]
        /\ (IsSome(env.requested) /\ Unwrap(env.requested).formats = <<>>) =>
              /\ phase = "panicked"
              /\ last.panic = "index out of bounds"
        /\ IsNone(env.requested) =>
              \A i \in DOMAIN env.enumerated :
                  FirstUsable(env.enumerated, i) =>
                      /\ phase = "running"
                      /\ IsSome(state)
                      /\ Config(state).format = env.enumerated[i].formats[1]
        /\ (IsNone(env.requested)
               /\ \A i \in DOMAIN env.enumerated : env.enumerated[i].formats = <<>>) =>
              /\ phase = "panicked"
              /\ last.panic = "Unable to request video adapter."
        /\ phase = "running" => IsSome(state)

\* The request returned none, the first enumerated adapter supports no format, and
\* the second one's first format was configured.
C19_Witness ==
    /\ IsNewScript
    /\ pos = 1
    /\ phase = "running"
    /\ IsNone(script[1].env.requested)
    /\ Len(script[1].env.enumerated) = 2
    /\ script[1].env.enumerated[1].formats = <<>>
    /\ script[1].env.enumerated[2].formats = <<"Rgba8UnormSrgb", "Bgra8UnormSrgb">>
    /\ Config(state).format = "Rgba8UnormSrgb"

\* C14: a window event or RedrawRequest for a window other than the Session's is
\* ignored: the Session and its configuration are unchanged, the exit status is
\* unchanged and the event requests no exit, and no GPU call is made, also for a
\* Resized with positive dimensions and a CloseRequested.
C14_OtherWindowIgnored ==
    [][(/\ IsSome(state)
        /\ last'.kind \in {"WindowEvent", "RedrawRequested"}
        /\ last'.window_id # Unwrap(state).window)
        => (/\ state' = state
            /\ NoGpuCalls(calls')
            /\ exit_code' = exit_code
            /\ control_flow' = Wait)]_vars

\* A CloseRequested for another window left the Session running.
C14_Witness ==
    /\ IsClose(last)
    /\ IsSome(state)
    /\ last.window_id # Unwrap(state).window
    /\ exit_code = None
    /\ calls = <<>>

\* C16: when the acquisition of a RedrawRequest fails with a kind other than Lost
\* and OutOfMemory, the frame is dropped: no reconfigure, draw, submit or present,
\* the Session and its configuration unchanged, no termination signaled.
C16_OtherErrorDropsFrame ==
    [][(/\ last'.kind = "RedrawRequested"
        /\ last'.result \in SurfaceErrors \ {"Lost", "OutOfMemory"}
        /\ Targets(state, last'.window_id))
        => (/\ state' = state
            /\ CountOp(calls', "get_current_texture") = 1
            /\ \A op \in {"configure", "render_pass", "submit", "present"} :
                   CountOp(calls', op) = 0
            /\ control_flow' = Wait
            /\ exit_code' = exit_code)]_vars

\* An Outdated acquisition was handled.
C16_Witness ==
    /\ IsRedraw(last, "Outdated")
    /\ Targets(state, last.window_id)
    /\ Len(calls) = 1
    /\ exit_code = None

\* C17: a Resume processed while a Session exists changes nothing of the Session,
\* makes no call (no initialization, no configure, no redraw request); a Resume
\* processed with no Session requests exactly one redraw, on the new window.
C17_ResumeIdempotent ==
    [][/\ (last'.kind = "Resumed" /\ IsSome(state))
            => (state' = state /\ calls' = <<>>)
       /\ (last'.kind = "Resumed" /\ IsNone(state) /\ phase' = "running")
            => /\ CountOp(calls', "request_redraw") = 1
               /\ \E i \in DOMAIN calls' :
                      calls'[i] = [op |-> "request_redraw",
                                   window |-> Unwrap(state').window]]_vars

\* A Resume arrived at a Session that had been resized.
C17_Witness ==
    /\ last = [kind |-> "Resumed"]
    /\ IsSome(state)
    /\ Size(state) = <<MaxDim, MaxDim>>
    /\ calls = <<>>

\* C18: a Session's pipeline is built exactly once, when the Session is created,
\* after the configuration was applied, for the configured surface format; no
\* later event of the Session builds or replaces it; a new Session has a new one.
PositionsOf(made, op) == {i \in DOMAIN made : made[i].op = op}
C18_PipelineBuiltOnce ==
    /\ [](IsSome(state) =>
             Unwrap(state).pipeline.format = Config(state).format)
    /\ [][/\ (IsNone(state) /\ IsSome(state'))
               => /\ CountOp(calls', "create_render_pipeline") = 1
                  /\ \A i \in PositionsOf(calls', "create_render_pipeline") :
                         /\ calls'[i].format = Config(state').format
                         /\ \E j \in PositionsOf(calls', "configure") :
                                j < i /\ calls'[j].config = Config(state')
                  /\ Unwrap(state').pipeline.device = next_window
                  /\ next_window' > next_window
          /\ IsSome(state)
               => /\ CountOp(calls', "create_render_pipeline") = 0
                  /\ IsSome(state') => Unwrap(state').pipeline = Unwrap(state).pipeline
         ]_vars

\* The second Session's pipeline survived a resize and a Lost recovery.
C18_Witness ==
    /\ IsRedraw(last, "Lost")
    /\ Targets(state, last.window_id)
    /\ Unwrap(state).pipeline.device = 2
    /\ Size(state) = <<MaxDim, 1>>

====
